---- MODULE Spec2Model ----
(***************************************************************************)
(* Model of dahead/space (src/main.go): a bubbletea program that runs      *)
(* `df -k` once, parses its output (parseDfOutput), and renders one block  *)
(* per record with a human-readable size (formatSize) and a 30-cell usage  *)
(* bar (Model.View); Model.Update is the event handler.                    *)
(*                                                                         *)
(* Numbers.  TLC's integers are 32 bits wide, so Go's int64/int values are *)
(* kept as sign-magnitude records [neg, mag] whose magnitude is a sequence *)
(* of bits, least significant first, without leading zeros (zero is <<>>). *)
(* All arithmetic is done on the bits, so the 64-bit width, the clamping   *)
(* of strconv on range errors and the IEEE-754 rounding of the bar         *)
(* computation are the real ones.                                          *)
(*                                                                         *)
(* Text.  A Go string is a sequence of one-character strings.              *)
(***************************************************************************)
EXTENDS Integers, Sequences, FiniteSets, TLC

(***************************************************************************)
(* Natural numbers as bit sequences (least significant bit first).  The    *)
(* operators work on ChunkBits bits at a time, which only shortens the     *)
(* recursion; the results do not depend on ChunkBits.                      *)
(***************************************************************************)
ChunkBits == 8

Min(a, b) == IF a < b THEN a ELSE b

Norm(b) == IF \A i \in 1..Len(b) : b[i] = 0 THEN <<>>
           ELSE SubSeq(b, 1, CHOOSE i \in 1..Len(b) :
                               b[i] = 1 /\ \A j \in (i + 1)..Len(b) : b[j] = 0)

RECURSIVE NatBits(_)
NatBits(n) == IF n = 0 THEN <<>> ELSE <<n % 2>> \o NatBits(n \div 2)

RECURSIVE BitsNat(_)
BitsNat(b) == IF b = <<>> THEN 0 ELSE Head(b) + 2 * BitsNat(Tail(b))

\* the n low bits of the natural v
BitsOf(v, n) == [i \in 1..n |-> (v \div 2^(i - 1)) % 2]
Zeros(k) == [i \in 1..k |-> 0]
Ones(k) == [i \in 1..k |-> 1]
ShiftLeft(b, k) == IF b = <<>> THEN <<>> ELSE Zeros(k) \o b
ShiftRight(b, k) == IF Len(b) <= k THEN <<>> ELSE SubSeq(b, k + 1, Len(b))
Pow2(k) == Zeros(k) \o <<1>>
Low(b, n) == SubSeq(b, 1, Min(n, Len(b)))

\* b * k + c for small naturals k and c
RECURSIVE MulAddR(_, _, _)
MulAddR(b, k, c) ==
    IF b = <<>> THEN NatBits(c)
    ELSE LET n == Min(ChunkBits, Len(b))
             t == BitsNat(Low(b, n)) * k + c
         IN  BitsOf(t % 2^n, n) \o MulAddR(ShiftRight(b, n), k, t \div 2^n)
MulAdd(b, k, c) == Norm(MulAddR(b, k, c))

\* a + b + c (c a carry bit), not normalised
RECURSIVE AddBits(_, _, _)
AddBits(a, b, c) ==
    IF a = <<>> /\ b = <<>> THEN NatBits(c)
    ELSE LET n == ChunkBits
             t == BitsNat(Low(a, n)) + BitsNat(Low(b, n)) + c
         IN  BitsOf(t % 2^n, n) \o AddBits(ShiftRight(a, n), ShiftRight(b, n), t \div 2^n)

\* a < b on normalised magnitudes
LessBits(a, b) ==
    \/ Len(a) < Len(b)
    \/ /\ Len(a) = Len(b)
       /\ \E i \in 1..Len(a) : /\ a[i] < b[i]
                               /\ \A j \in (i + 1)..Len(a) : a[j] = b[j]

\* a - b - c for a >= b + c (c a borrow bit), not normalised
RECURSIVE SubBitsR(_, _, _)
SubBitsR(a, b, c) ==
    IF a = <<>> THEN <<>>
    ELSE LET n == ChunkBits
             t == BitsNat(Low(a, n)) - BitsNat(Low(b, n)) - c
         IN  BitsOf(t % 2^n, n) \o SubBitsR(ShiftRight(a, n), ShiftRight(b, n),
                                            IF t < 0 THEN 1 ELSE 0)
SubBits(a, b) == Norm(SubBitsR(a, b, 0))

\* quotient and remainder of a bit sequence by a small positive natural d;
\* b is read from its most significant bit b[i], acc = [q (LSB first), r]
\* (acc.r < d throughout; the test only makes TLC evaluate acc at each step)
RECURSIVE DivSmallR(_, _, _, _)
DivSmallR(b, i, d, acc) ==
    IF i = 0 \/ acc.r >= d THEN acc
    ELSE LET n == Min(ChunkBits, i)
             r2 == acc.r * 2^n + BitsNat(SubSeq(b, i - n + 1, i))
         IN  DivSmallR(b, i - n, d, [q |-> BitsOf(r2 \div d, n) \o acc.q, r |-> r2 % d])
DivSmall(b, d) == LET a == DivSmallR(b, Len(b), d, [q |-> <<>>, r |-> 0])
                  IN  [q |-> Norm(a.q), r |-> a.r]

(***************************************************************************)
(* Go's int64 (and int, 64 bits wide on the platforms df runs on).         *)
(***************************************************************************)
IntWidth == 64
MkInt(neg, mag) == [neg |-> neg /\ mag # <<>>, mag |-> mag]
IntZero == MkInt(FALSE, <<>>)
IntOf(n) == IF n < 0 THEN MkInt(TRUE, NatBits(-n)) ELSE MkInt(FALSE, NatBits(n))
MaxInt64 == MkInt(FALSE, Ones(IntWidth - 1))
MinInt64 == MkInt(TRUE, Pow2(IntWidth - 1))
IsNegative(x) == x.neg
\* the value as a TLC integer, for magnitudes below 2^30
ToZ(x) == IF x.neg THEN -BitsNat(x.mag) ELSE BitsNat(x.mag)

\* the IntWidth-bit two's-complement pattern of a mathematical integer
Pad(b) == IF Len(b) >= IntWidth THEN SubSeq(b, 1, IntWidth)
          ELSE b \o Zeros(IntWidth - Len(b))
Negate(p) == Pad(AddBits([i \in 1..IntWidth |-> 1 - p[i]], <<1>>, 0))
Wrap(x) == LET p == IF x.neg THEN Negate(Pad(x.mag)) ELSE Pad(x.mag)
           IN  IF p[IntWidth] = 1 THEN MkInt(TRUE, Norm(Negate(p)))
               ELSE MkInt(FALSE, Norm(p))

\* a - b on mathematical integers
IntSub(a, b) ==
    IF a.neg # b.neg THEN MkInt(a.neg, Norm(AddBits(a.mag, b.mag, 0)))
    ELSE IF LessBits(a.mag, b.mag) THEN MkInt(~a.neg, SubBits(b.mag, a.mag))
    ELSE MkInt(a.neg, SubBits(a.mag, b.mag))

(***************************************************************************)
(* strconv.ParseInt(s, 10, 64) and strconv.Atoi(s), as called by           *)
(* parseDfOutput.  Both report a syntax error with value 0 and a range     *)
(* error with the nearest representable value; parseDfOutput discards the  *)
(* error and keeps the value.                                              *)
(***************************************************************************)
DigitChars == <<"0", "1", "2", "3", "4", "5", "6", "7", "8", "9">>
IsDigit(c) == \E d \in 1..10 : DigitChars[d] = c
DigitVal(c) == (CHOOSE d \in 1..10 : DigitChars[d] = c) - 1

\* strconv.ParseUint: stops at the first character that is no digit (syntax
\* error) or that takes the value past 2^64 - 1 (range error)
RECURSIVE ParseUintFrom(_, _, _)
ParseUintFrom(s, i, n) ==
    IF i > Len(s) THEN [mag |-> n, err |-> "nil"]
    ELSE IF ~IsDigit(s[i]) THEN [mag |-> <<>>, err |-> "syntax"]
    ELSE LET n1 == MulAdd(n, 10, DigitVal(s[i]))
         IN  IF Len(n1) > IntWidth THEN [mag |-> Ones(IntWidth), err |-> "range"]
             ELSE ParseUintFrom(s, i + 1, n1)
ParseUint(s) == IF s = <<>> THEN [mag |-> <<>>, err |-> "syntax"]
                ELSE ParseUintFrom(s, 1, <<>>)

ParseInt(s) ==
    IF s = <<>> THEN [val |-> IntZero, err |-> "syntax"]
    ELSE LET neg == s[1] = "-"
             body == IF s[1] = "+" \/ s[1] = "-" THEN Tail(s) ELSE s
             un == ParseUint(body)
             cutoff == Pow2(IntWidth - 1)
         IN  IF un.err = "syntax" THEN [val |-> IntZero, err |-> "syntax"]
             ELSE IF ~neg /\ ~LessBits(un.mag, cutoff)
                  THEN [val |-> MaxInt64, err |-> "range"]
             ELSE IF neg /\ LessBits(cutoff, un.mag)
                  THEN [val |-> MinInt64, err |-> "range"]
             ELSE [val |-> MkInt(neg, un.mag), err |-> "nil"]

\* strconv.Atoi: int is 64 bits wide, so its fast path and ParseInt(s, 10, 0)
\* give the results of ParseInt(s, 10, 64)
Atoi(s) == ParseInt(s)

(***************************************************************************)
(* float64: [neg, mant, exp] stands for (-1)^neg * mant * 2^exp with mant  *)
(* a bit sequence of at most 53 bits.  Results are rounded to nearest,     *)
(* ties to even, as the hardware does.                                     *)
(***************************************************************************)
MantBits == 53
\* round the exact value (b + f) * 2^exp, 0 <= f < 1, f # 0 iff sticky
RoundBits(neg, b, sticky, exp) ==
    IF Len(b) <= MantBits THEN [neg |-> neg /\ b # <<>>, mant |-> b, exp |-> exp]
    ELSE LET drop == Len(b) - MantBits
             kept == SubSeq(b, drop + 1, Len(b))
             rest == sticky \/ \E i \in 1..(drop - 1) : b[i] = 1
             up == b[drop] = 1 /\ (rest \/ kept[1] = 1)
             m == IF up THEN Norm(AddBits(kept, <<1>>, 0)) ELSE kept
         IN  IF Len(m) > MantBits
             THEN [neg |-> neg, mant |-> Tail(m), exp |-> exp + drop + 1]
             ELSE [neg |-> neg, mant |-> m, exp |-> exp + drop]
GuardBits == 64
ToFloat(x) == RoundBits(x.neg, x.mag, FALSE, 0)
\* f / float64(d) and f * float64(k) for small positive integers d, k
FDivSmall(f, d) ==
    LET qr == DivSmall(ShiftLeft(f.mant, GuardBits), d)
    IN  RoundBits(f.neg, qr.q, qr.r # 0, f.exp - GuardBits)
FMulSmall(f, k) == RoundBits(f.neg, MulAdd(f.mant, k, 0), FALSE, f.exp)
\* int(f): the fraction is discarded (truncation toward zero)
Trunc(f) == MkInt(f.neg, IF f.exp >= 0 THEN ShiftLeft(f.mant, f.exp)
                         ELSE ShiftRight(f.mant, -f.exp))

(***************************************************************************)
(* Strings: the library functions parseDfOutput and View call.             *)
(***************************************************************************)
\* the characters of the regular expression class \s, all of which
\* strings.TrimSpace strips as well
SpaceChars == {" ", "\t", "\n", "\r", "\f"}

\* the elements of a finite set of integers in increasing order
SortedSeq(S) == [k \in 1..Cardinality(S) |->
                    CHOOSE x \in S : Cardinality({y \in S : y < x}) = k - 1]

\* the piece of s that starts at a and ends before the next separator
PieceAt(s, a, Sep) ==
    LET ends == {j \in a..Len(s) : s[j] \in Sep} \cup {Len(s) + 1}
        e == CHOOSE j \in ends : \A x \in ends : j <= x
    IN  SubSeq(s, a, e - 1)

\* strings.Split(s, "\n")
SplitLines(s) ==
    LET starts == {1} \cup {i + 1 : i \in {j \in 1..Len(s) : s[j] = "\n"}}
        order == SortedSeq(starts)
    IN  [k \in 1..Len(order) |-> PieceAt(s, order[k], {"\n"})]

\* strings.TrimSpace(s)
TrimSpace(s) ==
    LET keep == {i \in 1..Len(s) : s[i] \notin SpaceChars}
    IN  IF keep = {} THEN <<>>
        ELSE SubSeq(s, CHOOSE i \in keep : \A x \in keep : i <= x,
                       CHOOSE i \in keep : \A x \in keep : i >= x)

\* strings.HasPrefix(s, prefix)
HasPrefix(s, prefix) == Len(s) >= Len(prefix) /\ SubSeq(s, 1, Len(prefix)) = prefix

\* strings.TrimSuffix(s, "%")
TrimSuffix(s, c) == IF s # <<>> /\ s[Len(s)] = c THEN SubSeq(s, 1, Len(s) - 1) ELSE s

\* splitDfLine: regexp.MustCompile(`\s+`).Split(line, -1).  The pieces are
\* what lies between the maximal runs of white space; a run at the very
\* start or end of the line leaves an empty piece there.
splitDfLine(line) ==
    LET runEnds == {i \in 1..Len(line) :
                      line[i] \in SpaceChars
                      /\ (i = Len(line) \/ line[i + 1] \notin SpaceChars)}
        order == SortedSeq({1} \cup {i + 1 : i \in runEnds})
    IN  [k \in 1..Len(order) |-> PieceAt(line, order[k], SpaceChars)]

(***************************************************************************)
(* parseDfOutput                                                           *)
(***************************************************************************)
PrefixSlash == <<"/">>
PrefixTmpfs == <<"t", "m", "p", "f", "s">>
PrefixDevtmpfs == <<"d", "e", "v", "t", "m", "p", "f", "s">>
PrefixDev == <<"/", "d", "e", "v">>

\* x * 1024 in int64 arithmetic: the product is cut to IntWidth bits
Times1024(x) == Wrap(MkInt(x.neg, ShiftLeft(x.mag, 10)))

\* the DiskInfo appended for a line's fields (lines 122-138)
MakeDiskInfo(fields) ==
    [Filesystem |-> fields[1],
     Size       |-> Times1024(ParseInt(fields[2]).val),
     Used       |-> Times1024(ParseInt(fields[3]).val),
     Available  |-> Times1024(ParseInt(fields[4]).val),
     UsePercent |-> Atoi(TrimSuffix(fields[5], "%")).val,
     MountPoint |-> fields[6]]

\* the loop body for one line: the records it appends (none or one)
ParseLine(raw) ==
    LET line == TrimSpace(raw)
        fields == splitDfLine(line)
    IN  IF line = <<>> THEN <<>>
        ELSE IF ~HasPrefix(line, PrefixSlash) /\ ~HasPrefix(line, PrefixTmpfs)
                /\ ~HasPrefix(line, PrefixDevtmpfs) THEN <<>>
        ELSE IF Len(fields) < 6 THEN <<>>
        ELSE <<MakeDiskInfo(fields)>>

\* for i := 1; i < len(lines); i++  (lines[0], the header, is skipped)
RECURSIVE ParseLoop(_, _, _)
ParseLoop(lines, i, diskInfos) ==
    IF i > Len(lines) THEN diskInfos
    ELSE ParseLoop(lines, i + 1, diskInfos \o ParseLine(lines[i]))

parseDfOutput(output) == ParseLoop(SplitLines(output), 2, <<>>)

(***************************************************************************)
(* formatSize.  The result is the unit chosen and the number printed       *)
(* before it: the byte count itself for B, the quotient                    *)
(* float64(size)/float64(unit) otherwise, kept as the pair it is formed    *)
(* from (the digits of the %.2f rendering are not modelled).               *)
(***************************************************************************)
KB == Pow2(10)
MB == ShiftLeft(KB, 10)
GB == ShiftLeft(MB, 10)
TB == ShiftLeft(GB, 10)
\* size >= unit, for a positive unit
AtLeast(size, unit) == ~size.neg /\ ~LessBits(size.mag, unit)

\* formatSize with > where the code has >=
formatSize_Strict(size) ==
    IF AtLeast(size, TB) /\ size.mag # TB THEN [unit |-> "TB", num |-> size, den |-> TB]
    ELSE IF AtLeast(size, GB) /\ size.mag # GB THEN [unit |-> "GB", num |-> size, den |-> GB]
    ELSE IF AtLeast(size, MB) /\ size.mag # MB THEN [unit |-> "MB", num |-> size, den |-> MB]
    ELSE IF AtLeast(size, KB) /\ size.mag # KB THEN [unit |-> "KB", num |-> size, den |-> KB]
    ELSE [unit |-> "B", num |-> size, den |-> <<1>>]

formatSize(size) ==
    IF AtLeast(size, TB) THEN [unit |-> "TB", num |-> size, den |-> TB]
    ELSE IF AtLeast(size, GB) THEN [unit |-> "GB", num |-> size, den |-> GB]
    ELSE IF AtLeast(size, MB) THEN [unit |-> "MB", num |-> size, den |-> MB]
    ELSE IF AtLeast(size, KB) THEN [unit |-> "KB", num |-> size, den |-> KB]
    ELSE [unit |-> "B", num |-> size, den |-> <<1>>]

(***************************************************************************)
(* The usage bar of Model.View.                                            *)
(***************************************************************************)
barWidth == 30
\* the bar in integer arithmetic: di.UsePercent / 100 * barWidth
usedChars_IntegerDivision(percent) ==
    MkInt(percent.neg, MulAdd(DivSmall(percent.mag, 100).q, barWidth, 0))

usedChars(percent) == Trunc(FMulSmall(FDivSmall(ToFloat(percent), 100), barWidth))
availChars(percent) == IntSub(IntOf(barWidth), usedChars(percent))

(***************************************************************************)
(* Model.View.  The result is what the call produces: the error text, the  *)
(* loading text, the report (its device blocks in order), or a panic:      *)
(* strings.Repeat panics on a negative count.                              *)
(***************************************************************************)
NoError == "nil"
LoadingText == "Loading disk information..."

\* strings.Repeat(cell, count)
Repeat(cell, count) == [cell |-> cell, count |-> count, panic |-> count.neg]

\* the device block of one record (lines 59-79)
DeviceBlock(di) ==
    [Filesystem |-> di.Filesystem,
     size       |-> formatSize(di.Size),
     used       |-> formatSize(di.Used),
     avail      |-> formatSize(di.Available),
     usage      |-> di.UsePercent,
     mounted    |-> di.MountPoint,
     usedBar    |-> Repeat("full", usedChars(di.UsePercent)),
     availBar   |-> Repeat("light", availChars(di.UsePercent))]

\* the condition of line 58
Shown(di) == HasPrefix(di.Filesystem, PrefixDev) \/ HasPrefix(di.Filesystem, PrefixSlash)

\* for _, di := range m.diskInfos
RECURSIVE RenderLoop(_, _, _)
RenderLoop(diskInfos, i, blocks) ==
    IF i > Len(diskInfos) THEN [kind |-> "report", blocks |-> blocks, text |-> ""]
    ELSE IF ~Shown(diskInfos[i]) THEN RenderLoop(diskInfos, i + 1, blocks)
    ELSE LET b == DeviceBlock(diskInfos[i])
         IN  IF b.usedBar.panic \/ b.availBar.panic
             THEN [kind |-> "panic", blocks |-> <<>>, text |-> "strings: negative Repeat count"]
             ELSE RenderLoop(diskInfos, i + 1, Append(blocks, b))

\* View testing the records before the error
View_ErrorLast(m) ==
    IF Len(m.diskInfos) = 0
    THEN [kind |-> "loading", blocks |-> <<>>, text |-> LoadingText]
    ELSE IF m.err # NoError THEN [kind |-> "error", blocks |-> <<>>, text |-> m.err]
    ELSE RenderLoop(m.diskInfos, 1, <<>>)

View(m) ==
    IF m.err # NoError THEN [kind |-> "error", blocks |-> <<>>, text |-> m.err]
    ELSE IF Len(m.diskInfos) = 0
         THEN [kind |-> "loading", blocks |-> <<>>, text |-> LoadingText]
    ELSE RenderLoop(m.diskInfos, 1, <<>>)

(***************************************************************************)
(* Model.Update: the new model and the command returned.                   *)
(***************************************************************************)
QuitKeys == {"q", "ctrl+c", "esc"}
Keys == QuitKeys \cup {"a", "enter"}

KeyMsg(k) == [type |-> "KeyMsg", key |-> k, infos |-> <<>>, err |-> NoError]
DiskInfoMsg(infos) == [type |-> "[]DiskInfo", key |-> "", infos |-> infos, err |-> NoError]
ErrorMsg(e) == [type |-> "error", key |-> "", infos |-> <<>>, err |-> e]
NoMsg == [type |-> "none", key |-> "", infos |-> <<>>, err |-> NoError]

\* Update quitting on every key
Update_AnyKeyQuits(m, msg) ==
    IF msg.type = "KeyMsg" THEN [m |-> m, cmd |-> "Quit"]
    ELSE IF msg.type = "[]DiskInfo"
    THEN [m |-> [diskInfos |-> msg.infos, err |-> NoError], cmd |-> "Quit"]
    ELSE IF msg.type = "error"
    THEN [m |-> [diskInfos |-> m.diskInfos, err |-> msg.err], cmd |-> "Quit"]
    ELSE [m |-> m, cmd |-> "nil"]

Update(m, msg) ==
    IF msg.type = "KeyMsg"
    THEN IF msg.key \in QuitKeys THEN [m |-> m, cmd |-> "Quit"]
         ELSE [m |-> m, cmd |-> "nil"]
    ELSE IF msg.type = "[]DiskInfo"
    THEN [m |-> [diskInfos |-> msg.infos, err |-> NoError], cmd |-> "Quit"]
    ELSE IF msg.type = "error"
    THEN [m |-> [diskInfos |-> m.diskInfos, err |-> msg.err], cmd |-> "Quit"]
    ELSE [m |-> m, cmd |-> "nil"]

(***************************************************************************)
(* The outputs of `df -k` the model draws from: a first line followed by   *)
(* up to MaxLines lines.                                                   *)
(***************************************************************************)
\* the header row df prints
Header ==
    <<"F", "i", "l", "e", "s", "y", "s", "t", "e", "m", " ", "1", "K", "-",
      "b", "l", "o", "c", "k", "s", " ", "U", "s", "e", "d", " ", "A", "v",
      "a", "i", "l", "a", "b", "l", "e", " ", "U", "s", "e", "%", " ", "M",
      "o", "u", "n", "t", "e", "d", " ", "o", "n">>
\* a well-formed row
LineOk ==
    <<"/", "d", "e", "v", "/", "s", "d", "a", "1", " ", "1", "0", "4", "8",
      "5", "7", "6", " ", "5", "2", "4", "2", "8", "8", " ", "5", "2", "4",
      "2", "8", "8", " ", "5", "0", "%", " ", "/">>
\* a tmpfs row
LineTmpfs ==
    <<"t", "m", "p", "f", "s", " ", "1", "0", "2", "4", " ", "0", " ", "1",
      "0", "2", "4", " ", "0", "%", " ", "/", "r", "u", "n">>
\* a devtmpfs row
LineDevtmpfs ==
    <<"d", "e", "v", "t", "m", "p", "f", "s", " ", "4", " ", "0", " ", "4",
      " ", "0", "%", " ", "/", "d", "e", "v">>
\* a row with an unrecognised prefix
LineOverlay ==
    <<"o", "v", "e", "r", "l", "a", "y", " ", "1", "0", "0", " ", "5", "0",
      " ", "5", "0", " ", "5", "0", "%", " ", "/", "v", "a", "r">>
\* a row of 4 fields
LineShort ==
    <<"/", "d", "e", "v", "/", "s", "d", "b", " ", "1", "0", "0", " ", "5",
      "0", " ", "5", "0">>
\* a row of 7 fields with runs of white space around them, 2^30 KB used,
\* and a percentage without its suffix
LineSpaced ==
    <<" ", " ", "/", "d", "e", "v", "/", "s", "d", "c", " ", "\t", " ", "2",
      "0", "4", "8", " ", " ", " ", "1", "0", "7", "3", "7", "4", "1", "8",
      "2", "4", " ", "1", "0", "2", "3", " ", " ", "1", "0", "0", " ", " ",
      " ", "/", "m", "n", "t", " ", "e", "x", "t", "r", "a", "\r">>
\* a row whose numeric fields are no numbers
LineNonNumeric ==
    <<"/", "d", "e", "v", "/", "s", "d", "d", " ", "a", "b", "c", " ", "-",
      " ", "1", "2", "x", " ", "x", "%", " ", "/", "d">>
\* a row whose numeric fields are outside int64: 2^63, 10^20 - 1,
\* -2^63 - 1
LineOutOfRange ==
    <<"/", "d", "e", "v", "/", "s", "d", "e", " ", "9", "2", "2", "3", "3",
      "7", "2", "0", "3", "6", "8", "5", "4", "7", "7", "5", "8", "0", "8",
      " ", "9", "9", "9", "9", "9", "9", "9", "9", "9", "9", "9", "9", "9",
      "9", "9", "9", "9", "9", "9", "9", " ", "-", "9", "2", "2", "3", "3",
      "7", "2", "0", "3", "6", "8", "5", "4", "7", "7", "5", "8", "0", "9",
      " ", "9", "9", "9", "9", "9", "9", "9", "9", "9", "9", "9", "9", "9",
      "9", "9", "9", "9", "9", "9", "9", "%", " ", "/", "e">>
\* a row of int64 fields: 2^53 KB, and signed numbers
LineBig ==
    <<"/", "d", "e", "v", "/", "s", "d", "f", " ", "9", "0", "0", "7", "1",
      "9", "9", "2", "5", "4", "7", "4", "0", "9", "9", "2", " ", "-", "5",
      " ", "+", "7", " ", "-", "1", "0", "%", " ", "/", "f">>
\* a row with more than 100 percent used
LineOver100 ==
    <<"/", "d", "e", "v", "/", "s", "d", "g", " ", "1", "0", "0", " ", "1",
      "5", "0", " ", "0", " ", "1", "5", "0", "%", " ", "/", "g">>

MaxLines == 2
DataLines == {LineOk, LineTmpfs, LineDevtmpfs, LineOverlay, LineShort, LineSpaced,
              LineNonNumeric, LineOutOfRange, LineBig, LineOver100}
FirstLines == {Header, LineOk}

\* every line of df's output ends with a newline
RECURSIVE JoinLines(_)
JoinLines(ls) == IF ls = <<>> THEN <<>> ELSE Head(ls) \o <<"\n">> \o JoinLines(Tail(ls))

LineSeqs == UNION {[1..n -> DataLines] : n \in 0..MaxLines}
\* nothing at all, a header cut short, or complete lines
Outputs == {<<>>, Header} \cup
           {JoinLines(<<first>> \o ls) : first \in FirstLines, ls \in LineSeqs}
\* the error cmd.Output() returns when df cannot be run or fails
ExecErrors == {"exec: \"df\": executable file not found in $PATH", "exit status 1"}

(***************************************************************************)
(* The program: main runs the model under the bubbletea event loop, which  *)
(* calls Init once, runs the command it returns, hands every message       *)
(* (a key press, or what a command returned) to Update, renders View after *)
(* Init and after every Update, and stops when the Quit command's message  *)
(* arrives.                                                                *)
(***************************************************************************)
VARIABLES
    pc,        \* "init", "running", "quitting" (Quit issued), "done", "crashed"
    m,         \* the Model: [diskInfos, err]
    pending,   \* the commands issued and not yet run
    inflight,  \* the message a finished command returned, not yet delivered
    output,    \* what the last run of df gave: [ok, text, err]
    lastMsg,   \* the last message given to Update
    cmd,       \* the command the last Update returned
    view,      \* what the last call of View produced
    queries,   \* the number of times df has been run
    errMsgs,   \* the number of error messages Update has received
    dataReady, \* Update has received the parsed records
    percent,   \* the input of the bar computation (BarSpec)
    bar,       \* its result
    bytes,     \* the input of formatSize (SizeSpec)
    formatted  \* its result

progVars == <<pc, m, pending, inflight, output, lastMsg, cmd, view, queries,
              errMsgs, dataReady>>
barVars == <<percent, bar>>
sizeVars == <<bytes, formatted>>
vars == <<progVars, barVars, sizeVars>>

None == "none"
NoOutput == [ok |-> TRUE, text |-> <<>>, err |-> NoError]
NoView == [kind |-> None, blocks |-> <<>>, text |-> ""]
NoBar == [done |-> FALSE, usedChars |-> IntZero, availChars |-> IntZero]
NoSize == [unit |-> None, num |-> IntZero, den |-> <<>>]
\* the event loop takes messages while the program has not ended
Live == {"running", "quitting"}
\* df is run at most this many times in the model
MaxQueries == 2

Init ==
    /\ pc = "init"
    /\ m = [diskInfos |-> <<>>, err |-> NoError]
    /\ pending = {}
    /\ inflight = NoMsg
    /\ output = NoOutput
    /\ lastMsg = NoMsg
    /\ cmd = "nil"
    /\ view = NoView
    /\ queries = 0
    /\ errMsgs = 0
    /\ dataReady = FALSE
    /\ percent = IntZero /\ bar = NoBar
    /\ bytes = IntZero /\ formatted = NoSize

\* main: tea.NewProgram(Model{}).Run() calls Model.Init, which returns
\* getDiskInfoCmd, and renders the first View
Start ==
    /\ pc = "init"
    /\ pc' = "running"
    /\ pending' = {"getDiskInfoCmd"}
    /\ view' = View(m)
    /\ UNCHANGED <<m, inflight, output, lastMsg, cmd, queries, errMsgs, dataReady>>
    /\ UNCHANGED <<barVars, sizeVars>>

\* getDiskInfoCmd, df failing: the error is the message
QueryFails ==
    /\ pc \in Live
    /\ "getDiskInfoCmd" \in pending
    /\ inflight = NoMsg
    /\ queries < MaxQueries
    /\ \E e \in ExecErrors :
          /\ output' = [ok |-> FALSE, text |-> <<>>, err |-> e]
          /\ inflight' = ErrorMsg(e)
    /\ pending' = {}
    /\ queries' = queries + 1
    /\ UNCHANGED <<pc, m, lastMsg, cmd, view, errMsgs, dataReady>>
    /\ UNCHANGED <<barVars, sizeVars>>

\* getDiskInfoCmd, df succeeding: the parsed output is the message
QuerySucceeds ==
    /\ pc \in Live
    /\ "getDiskInfoCmd" \in pending
    /\ inflight = NoMsg
    /\ queries < MaxQueries
    /\ \E text \in Outputs :
          /\ output' = [ok |-> TRUE, text |-> text, err |-> NoError]
          /\ inflight' = DiskInfoMsg(parseDfOutput(text))
    /\ pending' = {}
    /\ queries' = queries + 1
    /\ UNCHANGED <<pc, m, lastMsg, cmd, view, errMsgs, dataReady>>
    /\ UNCHANGED <<barVars, sizeVars>>

\* one turn of the event loop on msg: Update, the command it returned, View
Handle(msg) ==
    LET u == Update(m, msg)
        v == View(u.m)
    IN  /\ m' = u.m
        /\ cmd' = u.cmd
        /\ view' = v
        /\ lastMsg' = [msg EXCEPT !.infos = <<>>]
        /\ pending' = IF u.cmd = "getDiskInfoCmd" THEN pending \cup {u.cmd} ELSE pending
        /\ pc' = IF v.kind = "panic" THEN "crashed"
                 ELSE IF u.cmd = "Quit" THEN "quitting"
                 ELSE pc
        /\ errMsgs' = IF msg.type = "error" THEN errMsgs + 1 ELSE errMsgs
        /\ dataReady' = (dataReady \/ msg.type = "[]DiskInfo")

\* the message of getDiskInfoCmd reaches Update
Deliver ==
    /\ pc \in Live
    /\ inflight # NoMsg
    /\ Handle(inflight)
    /\ inflight' = NoMsg
    /\ UNCHANGED <<output, queries>>
    /\ UNCHANGED <<barVars, sizeVars>>

\* a key press reaches Update
KeyPress ==
    /\ pc \in Live
    /\ \E k \in Keys : Handle(KeyMsg(k))
    /\ UNCHANGED <<inflight, output, queries>>
    /\ UNCHANGED <<barVars, sizeVars>>

\* the message of the Quit command ends the event loop and Run returns
QuitStep ==
    /\ pc = "quitting"
    /\ pc' = "done"
    /\ UNCHANGED <<m, pending, inflight, output, lastMsg, cmd, view, queries,
                   errMsgs, dataReady>>
    /\ UNCHANGED <<barVars, sizeVars>>

Next == Start \/ QueryFails \/ QuerySucceeds \/ Deliver \/ KeyPress \/ QuitStep

Spec == Init /\ [][Next]_vars

(***************************************************************************)
(* The bar computation of View applied to the percentages                  *)
(* -PercentSlack .. 100 + PercentSlack.                                    *)
(***************************************************************************)
PercentSlack == 60
PercentInputs == {IntOf(p) : p \in (-PercentSlack)..(100 + PercentSlack)}

BarInit ==
    /\ percent \in PercentInputs /\ bar = NoBar
    /\ bytes = IntZero /\ formatted = NoSize
    /\ pc = "init" /\ m = [diskInfos |-> <<>>, err |-> NoError] /\ pending = {}
    /\ inflight = NoMsg /\ output = NoOutput /\ lastMsg = NoMsg /\ cmd = "nil"
    /\ view = NoView /\ queries = 0 /\ errMsgs = 0 /\ dataReady = FALSE

ComputeBar ==
    /\ bar = NoBar
    /\ bar' = [done |-> TRUE, usedChars |-> usedChars(percent),
               availChars |-> availChars(percent)]
    /\ UNCHANGED <<percent, progVars, sizeVars>>

BarSpec == BarInit /\ [][ComputeBar]_vars

(***************************************************************************)
(* formatSize applied to byte counts around every power of two of int64.   *)
(***************************************************************************)
SizeInputs ==
    {MkInt(FALSE, ShiftLeft(NatBits(c), k)) : c \in 0..7, k \in 0..(IntWidth - 4)}
    \cup {MkInt(FALSE, Ones(k)) : k \in 0..(IntWidth - 1)}
    \cup {MkInt(TRUE, Pow2(k)) : k \in 0..(IntWidth - 1)}

SizeInit ==
    /\ bytes \in SizeInputs /\ formatted = NoSize
    /\ percent = IntZero /\ bar = NoBar
    /\ pc = "init" /\ m = [diskInfos |-> <<>>, err |-> NoError] /\ pending = {}
    /\ inflight = NoMsg /\ output = NoOutput /\ lastMsg = NoMsg /\ cmd = "nil"
    /\ view = NoView /\ queries = 0 /\ errMsgs = 0 /\ dataReady = FALSE

FormatSize ==
    /\ formatted = NoSize
    /\ formatted' = formatSize(bytes)
    /\ UNCHANGED <<bytes, progVars, barVars>>

SizeSpec == SizeInit /\ [][FormatSize]_vars
(***************************************************************************)
(* The claims.                                                             *)
(***************************************************************************)

\* What C1 and C2 say of a text, stated without the parser's loop: the
\* fields of the lines after the first that are kept, in source order.
KeptFields(text) ==
    LET lines == SplitLines(text)
        kept == {i \in 2..Len(lines) :
                    LET t == TrimSpace(lines[i])
                    IN  /\ t # <<>>
                        /\ \/ HasPrefix(t, <<"/">>)
                           \/ HasPrefix(t, <<"t", "m", "p", "f", "s">>)
                           \/ HasPrefix(t, <<"d", "e", "v", "t", "m", "p", "f", "s">>)
                        /\ Len(splitDfLine(t)) >= 6}
        order == SortedSeq(kept)
    IN  [k \in 1..Len(order) |-> splitDfLine(TrimSpace(lines[order[k]]))]

\* the four numeric tokens of a kept line, the percentage without its suffix
NumericTokens(f) == <<f[2], f[3], f[4], TrimSuffix(f[5], "%")>>
Parses(tok) == ParseInt(tok).err = NoError
NumbersInRange(text) ==
    \A k \in 1..Len(KeptFields(text)) :
        \A j \in 1..4 : Parses(NumericTokens(KeptFields(text)[k])[j])
\* 1024 times an integer, as a mathematical integer
KBytes(x) == MkInt(x.neg, ShiftLeft(x.mag, 10))
ReferenceRecord(f) ==
    [Filesystem |-> f[1],
     Size       |-> KBytes(ParseInt(f[2]).val),
     Used       |-> KBytes(ParseInt(f[3]).val),
     Available  |-> KBytes(ParseInt(f[4]).val),
     UsePercent |-> ParseInt(TrimSuffix(f[5], "%")).val,
     MountPoint |-> f[6]]
Reference(text) == [k \in 1..Len(KeptFields(text)) |-> ReferenceRecord(KeptFields(text)[k])]
Parsed == inflight.type = "[]DiskInfo"

\* C1: for every text whose numeric tokens are in-range decimal integers,
\* parseDfOutput returns the reference sequence: the first line dropped, one
\* record per later line that is non-empty after trimming, begins with "/",
\* "tmpfs" or "devtmpfs" and has at least 6 fields, in source order, with
\* size, used and available equal to 1024 times their tokens.
C1_ParseMatchesReference ==
    (Parsed /\ NumbersInRange(output.text)) => inflight.infos = Reference(output.text)

\* C2: a numeric token that fails to parse (no number, or out of range)
\* leaves a zero in its field, and the line is still kept as a record.
C2_ParseFailureIsZero ==
    Parsed =>
        LET f == KeptFields(output.text)
            r == inflight.infos
        IN  /\ Len(r) = Len(f)
            /\ \A k \in 1..Len(f) :
                  /\ ~Parses(f[k][2]) => r[k].Size = IntZero
                  /\ ~Parses(f[k][3]) => r[k].Used = IntZero
                  /\ ~Parses(f[k][4]) => r[k].Available = IntZero
                  /\ ~Parses(TrimSuffix(f[k][5], "%")) => r[k].UsePercent = IntZero

\* C3: every record parseDfOutput returns has non-negative size, used and
\* available byte counts.
C3_BytesNonNegative ==
    Parsed =>
        \A k \in 1..Len(inflight.infos) :
            /\ ~IsNegative(inflight.infos[k].Size)
            /\ ~IsNegative(inflight.infos[k].Used)
            /\ ~IsNegative(inflight.infos[k].Available)

\* C4: a record whose percentage is outside 0..100 gets its bar by the same
\* formula (45 used and -15 available cells for 150), and View renders it
\* without crashing.
PercentOutOfRange(p) == p.neg \/ LessBits(NatBits(100), p.mag)
C4_OutOfRangeBarRenders ==
    dataReady =>
        \A i \in 1..Len(m.diskInfos) :
            LET di == m.diskInfos[i]
            IN  (Shown(di) /\ PercentOutOfRange(di.UsePercent)) =>
                    /\ di.UsePercent = IntOf(150) =>
                          /\ ToZ(usedChars(di.UsePercent)) = 45
                          /\ ToZ(availChars(di.UsePercent)) = -15
                    /\ view.kind # "panic"

\* C5: for every percentage p in 0..100 the bar has floor(p * 30 / 100) used
\* cells, used and available cells add up to 30, and both are in 0..30.
C5_BarCells ==
    (bar.done /\ ~percent.neg /\ ToZ(percent) <= 100) =>
        LET u == ToZ(bar.usedChars)
            a == ToZ(bar.availChars)
        IN  /\ u = (ToZ(percent) * 30) \div 100
            /\ u + a = 30
            /\ u \in 0..30
            /\ a \in 0..30
C5_Witness ==
    /\ bar.done /\ percent = IntOf(70)
    /\ ToZ(bar.usedChars) = 21 /\ ToZ(bar.availChars) = 9

\* C6: the units in increasing order and where each one's range starts
UnitNames == <<"B", "KB", "MB", "GB", "TB">>
UnitStart == <<Pow2(0), Pow2(10), Pow2(20), Pow2(30), Pow2(40)>>
InUnitRange(b, k, start) ==
    /\ ~LessBits(b, start)
    /\ k < Len(UnitNames) => LessBits(b, UnitStart[k + 1])
\* C6 as stated: for every non-negative byte count b, formatSize picks the
\* unit U with threshold(U) <= b < threshold(next unit), the thresholds being
\* 1, 1024, 1024^2, 1024^3, 1024^4.
C6_UnitByThreshold ==
    (formatted # NoSize /\ ~bytes.neg) =>
        \E k \in 1..Len(UnitNames) :
            formatted.unit = UnitNames[k] /\ InUnitRange(bytes.mag, k, UnitStart[k])
\* C6 as amended: the range of B starts at 0, so that 0 bytes are "0 B";
\* every other unit starts at its threshold and ends before the next one,
\* and TB has no upper end.
C6_UnitByRange ==
    (formatted # NoSize /\ ~bytes.neg) =>
        \E k \in 1..Len(UnitNames) :
            /\ formatted.unit = UnitNames[k]
            /\ InUnitRange(bytes.mag, k, IF k = 1 THEN <<>> ELSE UnitStart[k])
C6_Witness == formatted.unit = "GB" /\ bytes = MkInt(FALSE, Pow2(30))

\* C7 as stated: whatever the key, a key press makes Update return Quit.
C7_AnyKeyQuits == lastMsg.type = "KeyMsg" => cmd = "Quit"
\* C7 as amended: a key press makes Update return Quit, and the program
\* end, exactly when the key is q, ctrl+c or esc; for any other key Update
\* returns no command.
C7_QuitKeysQuit ==
    lastMsg.type = "KeyMsg" =>
        IF lastMsg.key \in {"q", "ctrl+c", "esc"}
        THEN cmd = "Quit" /\ pc \in {"quitting", "done"}
        ELSE cmd = "nil"
C7_Witness ==
    /\ lastMsg = KeyMsg("esc") /\ cmd = "Quit" /\ pc = "quitting"
    /\ queries = 0

C9_OneBlockPerRecord ==
    (dataReady /\ view.kind = "report") =>
        /\ Len(view.blocks) = Len(m.diskInfos)
        /\ \A i \in 1..Len(m.diskInfos) :
              view.blocks[i].Filesystem = m.diskInfos[i].Filesystem

\* C10: once Update has received the records, whatever their number, View
\* no longer gives the loading text.
C10_NoLoadingAfterData == dataReady => view.text # LoadingText
====
